---- MODULE Spec2Model ----
(***************************************************************************)
(* A model of Downloader.py: the identifier classifier (download_pdf),     *)
(* the three resolution strategies, the artifact fetcher and the batch     *)
(* dispatcher (handle_multiple_downloads).                                 *)
(*                                                                         *)
(* Python strings are sequences of one-character strings, so that strip,   *)
(* lower, startswith, endswith, split, replace and the regular expressions *)
(* are computed as the code computes them.  An f-string that only ends up  *)
(* in a message or in a search URL is a record [fmt, arg]: the template    *)
(* and the text substituted into it.                                       *)
(*                                                                         *)
(* The outside world (file system, web sites, the googlesearch package)    *)
(* is an environment record env: one field per call site, saying what      *)
(* that call does when it is reached.  Every source function is an         *)
(* operator from its arguments and env to an outcome                       *)
(*   [exc, val, trace, files]                                              *)
(* exc = NoExc and val the returned value, or exc the exception raised,    *)
(* or exc = Blocked when the call never ends;                              *)
(* trace the sequence of events (function entries, network calls, stage    *)
(* returns) in program order; files the paths opened for writing.          *)
(***************************************************************************)
EXTENDS Bags, FiniteSets, Integers, Sequences, TLC

----------------------------------------------------------------------------
(* Python string primitives *)

UPPER == <<"A","B","C","D","E","F","G","H","I","J","K","L","M","N","O","P","Q","R","S","T","U","V","W","X","Y","Z">>
LOWER == <<"a","b","c","d","e","f","g","h","i","j","k","l","m","n","o","p","q","r","s","t","u","v","w","x","y","z">>
DIGITS == <<"0","1","2","3","4","5","6","7","8","9">>

Range(s) == {s[i] : i \in DOMAIN s}

IsUpper(c) == c \in Range(UPPER)
IsAlpha(c) == c \in Range(UPPER) \cup Range(LOWER)
IsDigit(c) == c \in Range(DIGITS)
\* \s of the re module, over the characters that occur in the inputs
IsSpace(c) == c = " "
\* \w of the re module
IsWord(c) == IsAlpha(c) \/ IsDigit(c) \/ c = "_"

LowerChar(c) == IF IsUpper(c) THEN LOWER[CHOOSE i \in DOMAIN UPPER : UPPER[i] = c] ELSE c

\* str.lower()
Lower(s) == [i \in DOMAIN s |-> LowerChar(s[i])]

\* s[a:b] with 1-based inclusive bounds, empty when a > b
Slice(s, a, b) == IF a > b THEN <<>> ELSE SubSeq(s, a, b)

\* str.strip(): drops leading and trailing whitespace
Strip(s) ==
    IF \A i \in DOMAIN s : IsSpace(s[i]) THEN <<>>
    ELSE LET first == CHOOSE i \in DOMAIN s : ~IsSpace(s[i]) /\ \A j \in 1..(i-1) : IsSpace(s[j])
             last  == CHOOSE i \in DOMAIN s : ~IsSpace(s[i]) /\ \A j \in (i+1)..Len(s) : IsSpace(s[j])
         IN  SubSeq(s, first, last)

\* str.startswith(p)
StartsWith(s, p) == Len(s) >= Len(p) /\ SubSeq(s, 1, Len(p)) = p

\* str.endswith(p)
EndsWith(s, p) == Len(s) >= Len(p) /\ SubSeq(s, Len(s) - Len(p) + 1, Len(s)) = p

\* p in s
Contains(s, p) == \E i \in 1..(Len(s) - Len(p) + 1) : SubSeq(s, i, i + Len(p) - 1) = p

\* s.replace(a, b) for one-character a and b
Replace(s, a, b) == [i \in DOMAIN s |-> IF s[i] = a THEN b ELSE s[i]]

\* s.split(sep)[-1]: the text after the last separator, the whole text without one
LastSegment(s, sep) ==
    IF \A i \in DOMAIN s : s[i] # sep THEN s
    ELSE LET k == CHOOSE i \in DOMAIN s : s[i] = sep /\ \A j \in (i+1)..Len(s) : s[j] # sep
         IN  Slice(s, k + 1, Len(s))

\* re.sub(r'[^\w\s-]', '', s): drops every character that is not a word
\* character, whitespace or a hyphen
SubNonWord(s) ==
    LET kept == {i \in DOMAIN s : IsWord(s[i]) \/ IsSpace(s[i]) \/ s[i] = "-"}
        \* the position in s of the k-th character that is kept
        nth(k) == CHOOSE i \in kept : Cardinality({j \in kept : j <= i}) = k
    IN  [k \in 1..Cardinality(kept) |-> s[nth(k)]]

\* os.path.join(dir, name) on a POSIX system, for a relative name
PathJoin(dir, name) == dir \o <<"/">> \o name

\* Python's None, and the truth value of `if x:` for x a dict or None
None == [py |-> "None"]
Truthy(x) == x # None

\* None where a path or a matched text is expected (neither is ever empty)
NoText == <<>>

\* an f-string: the template and the text substituted for its placeholder
Fmt(template, arg) == [fmt |-> template, arg |-> arg]

----------------------------------------------------------------------------
(* Program constants and string literals of Downloader.py *)

DOWNLOAD_DIR == <<"d","o","w","n","l","o","a","d","s">>
MAX_CONCURRENT_DOWNLOADS == 10

HTTP == <<"h","t","t","p">>
DOT_PDF == <<".","p","d","f">>
PAST_PAPER == <<"p","a","s","t"," ","p","a","p","e","r">>
EXAM_PAPER == <<"e","x","a","m"," ","p","a","p","e","r">>
PAPER == <<"p","a","p","e","r">>
UNKNOWN == <<"u","n","k","n","o","w","n">>
PAST_PAPER_PDF == <<"p","a","s","t","_","p","a","p","e","r",".","p","d","f">>
COVER_SUFFIX == <<"_","c","o","v","e","r",".","j","p","g">>

----------------------------------------------------------------------------
(* The environment: what each external call site does when it is reached *)

\* the title attribute of the first PDFDrive search hit, when it has one
SiteTitle == <<"A","t","o","m","i","c"," ","H","a","b","i","t","s",":"," ","T","i","n","y"," ","C","h","a","n","g","e","s">>

EnvDefault ==
    [makedirs |-> "ok", direct |-> "ok",
     pdfdrive |-> "no_result", extract |-> "no_match", fetch |-> "ok", cover |-> "no_items",
     archive |-> "no_docs", google_import |-> "ok", google |-> "no_pdf",
     opac |-> "no_links", opac_dl |-> "ok"]

MakedirsOutcomes == {"ok", "raises"}
\* "no_response": the server accepts the request and never answers
StreamOutcomes == {"ok", "get_raises", "copy_raises", "no_response"}

\* whether the requests.get of a streamed download is given a timeout:
\* line 31 passes none, lines 125 and 213 pass timeout=15 and timeout=20
HasTimeout(site) == site # "direct"

\* a call of download_pdf takes one strategy, so the call sites of the other
\* strategies are left at their default
DirectEnvs ==
    {[EnvDefault EXCEPT !.makedirs = m, !.direct = d] :
        m \in MakedirsOutcomes, d \in StreamOutcomes}

PaperEnvs ==
    {[EnvDefault EXCEPT !.makedirs = m, !.opac = o, !.opac_dl = d] :
        m \in MakedirsOutcomes, o \in {"raises", "no_links", "link"}, d \in StreamOutcomes}

BookSearchEnvs ==
    {[EnvDefault EXCEPT !.pdfdrive = p, !.extract = x, !.archive = a, !.google_import = gi, !.google = g] :
        p \in {"raises", "no_result", "found_titled", "found_untitled"},
        x \in {"raises", "no_match", "match"},
        a \in {"raises", "no_docs", "doc"},
        gi \in {"ok", "ImportError"},
        g \in {"raises", "no_pdf", "pdf_url"}}

BookEnvs ==
    {[e EXCEPT !.makedirs = m, !.fetch = f, !.cover = c] :
        e \in BookSearchEnvs, m \in MakedirsOutcomes, f \in StreamOutcomes,
        c \in {"raises", "no_items", "saved"}}

Envs == DirectEnvs \cup PaperEnvs \cup BookEnvs

----------------------------------------------------------------------------
(* Outcomes of a call, and the events of its trace *)

NoExc == ""

\* a function is entered; a network call is made; a function returns val
Call(name) == [kind |-> "call", name |-> name, val |-> None]
Net(name) == [kind |-> "net", name |-> name, val |-> None]
Ret(name, val) == [kind |-> "ret", name |-> name, val |-> val]

Return(val, trace, files) == [exc |-> NoExc, val |-> val, trace |-> trace, files |-> files]
Raise(exc, trace, files) == [exc |-> exc, val |-> None, trace |-> trace, files |-> files]

\* the call never ends: the thread waits on a socket for ever
Blocked == "Blocked"
Block(trace, files) == [exc |-> Blocked, val |-> None, trace |-> trace, files |-> files]

\* a GET to a server that never responds: Timeout is raised when a timeout
\* was given, and without one the call blocks
NoResponse(site, trace, files) ==
    IF HasTimeout(site) THEN Raise("Timeout", trace, files) ELSE Block(trace, files)

\* the outcome o of a call made after the events and files of `before`
After(before, o) == [o EXCEPT !.trace = before.trace \o @, !.files = before.files \cup @]

\* the outcome o with the return of function `name` recorded at its end
Returned(name, o) == [o EXCEPT !.trace = @ \o <<Ret(name, o.val)>>]

\* try: o  except Exception: return val
Caught(o, val) == IF o.exc \notin {NoExc, Blocked} THEN Return(val, o.trace, o.files) ELSE o

\* str(e) of a caught exception
StrExc(exc) == Fmt(exc, <<>>)

\* a resolved URL, named by the site it points into
Url(site) == [url |-> site]

----------------------------------------------------------------------------
(* Artifact fetcher *)

\* _download_cover_image: every failure is caught and gives None
_download_cover_image(book_name, env) ==
    LET cover_path == PathJoin(DOWNLOAD_DIR, book_name \o COVER_SUFFIX)
        here == <<Call("_download_cover_image"), Net("books_api")>>
    IN  CASE env.cover = "raises"   -> Return(NoText, here, {})
          [] env.cover = "no_items" -> Return(NoText, here, {})
          [] env.cover = "saved"    -> Return(cover_path, here \o <<Net("thumbnail")>>, {cover_path})

\* _download_pdf_and_cover: a failed GET or a failed write is caught and
\* returned as an error Result
_download_pdf_and_cover(url, title, env) ==
    LET pdf_name == SubNonWord(title) \o DOT_PDF
        file_path == PathJoin(DOWNLOAD_DIR, pdf_name)
        here == <<Call("_download_pdf_and_cover"), Net(url.url)>>
    IN  CASE env.fetch = "get_raises" ->
               Return([status |-> "error", message |-> StrExc("ConnectionError")], here, {})
          [] env.fetch = "copy_raises" ->
               Return([status |-> "error", message |-> StrExc("ProtocolError")], here, {file_path})
          [] env.fetch = "no_response" ->
               LET r == NoResponse("fetch", here, {})
               IN  IF r.exc = Blocked THEN r
                   ELSE Return([status |-> "error", message |-> StrExc(r.exc)], here, {})
          [] env.fetch = "ok" ->
               LET c == After(Return(None, here, {file_path}), _download_cover_image(title, env))
               IN  Return([status |-> "success",
                           message |-> Fmt("Downloaded '{}'", title),
                           file_path |-> file_path,
                           cover |-> c.val], c.trace, c.files)

----------------------------------------------------------------------------
(* Direct URL fetch *)

\* a direct fetch that requests the URL before it looks at the extension
DirectUrlFetchFirst(url, env) ==
    LET filename == PathJoin(DOWNLOAD_DIR, LastSegment(url, "/"))
        here == <<Call("_download_direct_url"), Net("direct")>>
    IN  IF ~EndsWith(Lower(url), DOT_PDF)
        THEN Return([status |-> "error", message |-> Fmt("URL doesn't point to a PDF file", <<>>)],
                    here, {})
        ELSE Return([status |-> "success",
                     message |-> Fmt("Downloaded PDF from URL", <<>>),
                     file_path |-> filename], here, {filename})

_download_direct_url(url, env) ==
    IF ~EndsWith(Lower(url), DOT_PDF)
    THEN Return([status |-> "error", message |-> Fmt("URL doesn't point to a PDF file", <<>>)],
                <<Call("_download_direct_url")>>, {})
    ELSE LET filename == PathJoin(DOWNLOAD_DIR, LastSegment(url, "/"))
             here == <<Call("_download_direct_url"), Net("direct")>>
         IN  CASE env.direct = "get_raises" ->
                    Return([status |-> "error", message |-> StrExc("ConnectionError")], here, {})
               [] env.direct = "copy_raises" ->
                    Return([status |-> "error", message |-> StrExc("ProtocolError")], here, {filename})
               [] env.direct = "no_response" ->
                    LET r == NoResponse("direct", here, {})
                    IN  IF r.exc = Blocked THEN r
                        ELSE Return([status |-> "error", message |-> StrExc(r.exc)], here, {})
               [] env.direct = "ok" ->
                    Return([status |-> "success",
                            message |-> Fmt("Downloaded PDF from URL", <<>>),
                            file_path |-> filename], here, {filename})

----------------------------------------------------------------------------
(* Fallback search chain *)

\* _extract_pdfdrive_pdf: the data-preview URL of the book page, or None
_extract_pdfdrive_pdf(book_url, env) ==
    LET here == <<Call("_extract_pdfdrive_pdf"), Net(book_url.url)>>
    IN  CASE env.extract = "raises"   -> Return(None, here, {})
          [] env.extract = "no_match" -> Return(None, here, {})
          [] env.extract = "match"    -> Return(Url("pdfdrive_pdf"), here, {})

_try_pdfdrive_search(book_name, env) ==
    LET here == Return(None, <<Call("_try_pdfdrive_search"), Net("pdfdrive_search")>>, {})
        title == IF env.pdfdrive = "found_titled" THEN SiteTitle ELSE book_name
        body ==
            CASE env.pdfdrive = "raises" -> Raise("Timeout", here.trace, {})
              [] env.pdfdrive = "no_result" -> here
              [] env.pdfdrive \in {"found_titled", "found_untitled"} ->
                   LET x == After(here, _extract_pdfdrive_pdf(Url("pdfdrive_book"), env))
                   IN  IF Truthy(x.val)
                       THEN After(x, _download_pdf_and_cover(x.val, title, env))
                       ELSE Return(None, x.trace, x.files)
    IN  Returned("_try_pdfdrive_search", Caught(body, None))

_try_archive_search(book_name, env) ==
    LET here == Return(None, <<Call("_try_archive_search"), Net("archive_search")>>, {})
        body ==
            CASE env.archive = "raises" -> Raise("Timeout", here.trace, {})
              [] env.archive = "no_docs" -> here
              [] env.archive = "doc" ->
                   After(here, _download_pdf_and_cover(Url("archive_pdf"), book_name, env))
    IN  Returned("_try_archive_search", Caught(body, None))

\* the import of googlesearch stands before the try
_try_google_pdf_search(book_name, env) ==
    LET entry == <<Call("_try_google_pdf_search")>>
        here == Return(None, entry \o <<Net("google_search")>>, {})
        body ==
            CASE env.google = "raises" -> Raise("HTTPError", here.trace, {})
              [] env.google = "no_pdf" -> here
              [] env.google = "pdf_url" ->
                   After(here, _download_pdf_and_cover(Url("google_pdf"), book_name, env))
    IN  IF env.google_import = "ImportError"
        THEN Raise("ImportError", entry, {})
        ELSE Returned("_try_google_pdf_search", Caught(body, None))

\* re.sub(r'\.pdf$', '', s, flags=re.IGNORECASE)
SubPdfSuffix(s) == IF EndsWith(Lower(s), DOT_PDF) THEN Slice(s, 1, Len(s) - Len(DOT_PDF)) ELSE s

\* a chain that asks the archive before site A
BookNameArchiveFirst(book_name, env) ==
    LET clean_name == Strip(SubPdfSuffix(book_name))
        entry == Return(None, <<Call("_download_by_book_name")>>, {})
        archive_result == After(entry, _try_archive_search(clean_name, env))
        pdfdrive_result == After(archive_result, _try_pdfdrive_search(clean_name, env))
        google_result == After(pdfdrive_result, _try_google_pdf_search(clean_name, env))
    IN  IF archive_result.exc # NoExc \/ Truthy(archive_result.val) THEN archive_result
        ELSE IF pdfdrive_result.exc # NoExc \/ Truthy(pdfdrive_result.val) THEN pdfdrive_result
        ELSE IF google_result.exc # NoExc \/ Truthy(google_result.val) THEN google_result
        ELSE Return([status |-> "error",
                     message |-> Fmt("Could not find PDF for '{}'", clean_name),
                     alternatives |->
                        << Fmt("https://www.pdfdrive.com/search?q={}", Replace(clean_name, " ", "+")),
                           Fmt("https://archive.org/search.php?query={}", Replace(clean_name, " ", "+")) >>],
                    google_result.trace, google_result.files)

\* a chain that gives up after the archive stage
BookNameNoGoogle(book_name, env) ==
    LET clean_name == Strip(SubPdfSuffix(book_name))
        entry == Return(None, <<Call("_download_by_book_name")>>, {})
        pdfdrive_result == After(entry, _try_pdfdrive_search(clean_name, env))
        archive_result == After(pdfdrive_result, _try_archive_search(clean_name, env))
    IN  IF pdfdrive_result.exc # NoExc \/ Truthy(pdfdrive_result.val) THEN pdfdrive_result
        ELSE IF archive_result.exc # NoExc \/ Truthy(archive_result.val) THEN archive_result
        ELSE Return([status |-> "error",
                     message |-> Fmt("Could not find PDF for '{}'", clean_name),
                     alternatives |->
                        << Fmt("https://www.pdfdrive.com/search?q={}", Replace(clean_name, " ", "+")),
                           Fmt("https://archive.org/search.php?query={}", Replace(clean_name, " ", "+")) >>],
                    archive_result.trace, archive_result.files)

_download_by_book_name(book_name, env) ==
    LET clean_name == Strip(SubPdfSuffix(book_name))
        entry == Return(None, <<Call("_download_by_book_name")>>, {})
        pdfdrive_result == After(entry, _try_pdfdrive_search(clean_name, env))
        archive_result == After(pdfdrive_result, _try_archive_search(clean_name, env))
        google_result == After(archive_result, _try_google_pdf_search(clean_name, env))
    IN  IF pdfdrive_result.exc # NoExc \/ Truthy(pdfdrive_result.val) THEN pdfdrive_result
        ELSE IF archive_result.exc # NoExc \/ Truthy(archive_result.val) THEN archive_result
        ELSE IF google_result.exc # NoExc \/ Truthy(google_result.val) THEN google_result
        ELSE Return([status |-> "error",
                     message |-> Fmt("Could not find PDF for '{}'", clean_name),
                     alternatives |->
                        << Fmt("https://www.pdfdrive.com/search?q={}", Replace(clean_name, " ", "+")),
                           Fmt("https://archive.org/search.php?query={}", Replace(clean_name, " ", "+")) >>],
                    google_result.trace, google_result.files)

----------------------------------------------------------------------------
(* Past-paper resolution *)

AllIn(text, a, b, digit) ==
    /\ a >= 1 /\ b <= Len(text)
    /\ \A j \in a..b : IF digit THEN IsDigit(text[j]) ELSE IsAlpha(text[j])

\* the matches of [A-Za-z]{n}\s{sp}\d{3} that start at position i
CourseCodeMatches(text, i) ==
    {m \in (2..4) \X (0..1) :
        /\ AllIn(text, i, i + m[1] - 1, FALSE)
        /\ m[2] = 1 => (i + m[1] <= Len(text) /\ IsSpace(text[i + m[1]]))
        /\ AllIn(text, i + m[1] + m[2], i + m[1] + m[2] + 2, TRUE)}

\* _extract_course_code: re.search(r'([A-Za-z]{2,4}\s?\d{3})', text), the
\* leftmost match, greedy in the letters and then in the optional whitespace
_extract_course_code(text) ==
    LET starts == {i \in DOMAIN text : CourseCodeMatches(text, i) # {}}
    IN  IF starts = {} THEN NoText
        ELSE LET i == CHOOSE a \in starts : \A b \in starts : a <= b
                 ms == CourseCodeMatches(text, i)
                 m == CHOOSE a \in ms : \A b \in ms :
                          a[1] > b[1] \/ (a[1] = b[1] /\ a[2] >= b[2])
             IN  SubSeq(text, i, i + m[1] + m[2] + 2)

\* _extract_year: re.search(r'(20\d{2})', text)
_extract_year(text) ==
    LET starts == {i \in DOMAIN text :
                      /\ i + 3 <= Len(text)
                      /\ text[i] = "2" /\ text[i + 1] = "0"
                      /\ IsDigit(text[i + 2]) /\ IsDigit(text[i + 3])}
    IN  IF starts = {} THEN NoText
        ELSE LET i == CHOOSE a \in starts : \A b \in starts : a <= b
             IN  SubSeq(text, i, i + 3)

\* x or y, for texts
Or(x, y) == IF x # NoText THEN x ELSE y

\* a catalogue lookup without its try/except: a failure propagates
MzuniOpacSearchNoTry(query, course_code, year, env) ==
    LET here == <<Call("_try_mzuni_opac_search"), Net("opac_search")>>
        file_path == PathJoin(DOWNLOAD_DIR, PAST_PAPER_PDF)
    IN  CASE env.opac = "raises" -> Raise("Timeout", here, {})
          [] env.opac = "no_links" -> Returned("_try_mzuni_opac_search", Return(None, here, {}))
          [] env.opac = "link" ->
               IF env.opac_dl = "ok"
               THEN Returned("_try_mzuni_opac_search",
                             Return([status |-> "success",
                                     message |-> Fmt("Downloaded past paper: {}", query),
                                     file_path |-> file_path,
                                     source |-> "MZUNI Library"],
                                    here \o <<Net("opac_pdf")>>, {file_path}))
               ELSE Raise("ConnectionError", here \o <<Net("opac_pdf")>>, {})

_try_mzuni_opac_search(query, course_code, year, env) ==
    LET here == Return(None, <<Call("_try_mzuni_opac_search"), Net("opac_search")>>, {})
        filename == IF course_code # NoText \/ year # NoText
                    THEN Or(course_code, PAPER) \o <<"_">> \o Or(year, UNKNOWN) \o DOT_PDF
                    ELSE PAST_PAPER_PDF
        file_path == PathJoin(DOWNLOAD_DIR, filename)
        link == here.trace \o <<Net("opac_pdf")>>
        body ==
            CASE env.opac = "raises" -> Raise("Timeout", here.trace, {})
              [] env.opac = "no_links" -> here
              [] env.opac = "link" ->
                   CASE env.opac_dl = "get_raises" -> Raise("ConnectionError", link, {})
                     [] env.opac_dl = "copy_raises" -> Raise("ProtocolError", link, {file_path})
                     [] env.opac_dl = "no_response" -> NoResponse("opac_dl", link, {})
                     [] env.opac_dl = "ok" ->
                          Return([status |-> "success",
                                  message |-> Fmt("Downloaded past paper: {}", query),
                                  file_path |-> file_path,
                                  source |-> "MZUNI Library"], link, {file_path})
    IN  Returned("_try_mzuni_opac_search", Caught(body, None))

_try_past_paper_download(identifier, env) ==
    LET course_code == _extract_course_code(identifier)
        year == _extract_year(identifier)
        entry == Return(None, <<Call("_try_past_paper_download")>>, {})
        mzuni_result == After(entry, _try_mzuni_opac_search(identifier, course_code, year, env))
        body ==
            IF mzuni_result.exc # NoExc THEN mzuni_result
            ELSE IF Truthy(mzuni_result.val) /\ mzuni_result.val.status = "success"
            THEN mzuni_result
            ELSE Return([status |-> "info",
                         message |-> Fmt("No direct download found. Try these resources:", <<>>),
                         resources |->
                            << Fmt("https://opac.mzuni.ac.mw/cgi-bin/koha/opac-search.pl?q={}",
                                   Replace(identifier, " ", "+")),
                               Fmt("https://www.academia.edu/", <<>>),
                               Fmt("https://www.researchgate.net/", <<>>) >>,
                         tips |->
                            << "Try searching with exact course code and year (e.g. 'CS 101 2020')",
                               "Some resources may require institutional login" >>],
                        mzuni_result.trace, mzuni_result.files)
    IN  IF body.exc \notin {NoExc, Blocked}
        THEN Return([status |-> "error", message |-> Fmt("Search error: {}", <<>>)], body.trace, body.files)
        ELSE body

----------------------------------------------------------------------------
(* Identifier classifier *)

download_pdf(identifier, env) ==
    LET id == Strip(identifier)
        entry == Return(None, <<Call("download_pdf"), Call("makedirs")>>, {})
    IN  IF env.makedirs = "raises" THEN Raise("OSError", entry.trace, {})
        ELSE IF StartsWith(Lower(id), HTTP)
        THEN After(entry, _download_direct_url(id, env))
        ELSE IF Contains(Lower(id), PAST_PAPER) \/ Contains(Lower(id), EXAM_PAPER)
        THEN After(entry, _try_past_paper_download(id, env))
        ELSE After(entry, _download_by_book_name(id, env))

----------------------------------------------------------------------------
(* Inputs *)

IdPdfUrl == <<"h","t","t","p","s",":","/","/","e","x","a","m","p","l","e",".","c","o","m","/","b","o","o","k",".","p","d","f">>
IdHtmlUrl == <<"h","t","t","p","s",":","/","/","e","x","a","m","p","l","e",".","c","o","m","/","b","o","o","k",".","h","t","m","l">>
IdUpperUrl == <<" ","H","T","T","P","S",":","/","/","E","X","A","M","P","L","E",".","C","O","M","/","B","O","O","K",".","P","D","F"," ">>
IdKeywordUrl == <<"h","t","t","p",":","/","/","x",".","o","r","g","/","e","x","a","m"," ","p","a","p","e","r",".","p","d","f">>
IdPastPaper == <<"p","a","s","t"," ","p","a","p","e","r"," ","B","I","C","T","2","3","0","3"," ","2","0","2","3">>
IdExamPaper == <<"e","x","a","m"," ","p","a","p","e","r"," ","C","O","M","M","1","1","0","1"," ","2","0","2","4">>
IdPlainPastPaper == <<"P","a","s","t"," ","P","a","p","e","r"," ","n","e","t","w","o","r","k","i","n","g">>
IdTitle == <<"A","t","o","m","i","c"," ","H","a","b","i","t","s">>
IdTitlePdf == <<"A","t","o","m","i","c"," ","H","a","b","i","t","s",".","p","d","f">>
IdHttpTitle == <<"H","T","T","P"," ","T","h","e"," ","D","e","f","i","n","i","t","i","v","e"," ","G","u","i","d","e">>
IdPunctTitle == <<"C","+","+"," ","P","r","i","m","e","r",":"," ","5","t","h">>

Identifiers ==
    {IdPdfUrl, IdHtmlUrl, IdUpperUrl, IdKeywordUrl, IdPastPaper, IdExamPaper, IdPlainPastPaper,
     IdTitle, IdTitlePdf, IdHttpTitle, IdPunctTitle, <<>>}

\* the identifiers of the batches
BatchIdentifiers == {IdPdfUrl, IdHtmlUrl, IdPastPaper, IdTitle}

\* the longest batch over BatchIdentifiers
MaxBatch == 2
\* the number of units by which the large batch exceeds the worker cap
ExtraUnits == 1

\* the batches: every short list over BatchIdentifiers, duplicates included,
\* and one list longer than the worker cap
ShortBookLists == UNION {[1..n -> BatchIdentifiers] : n \in 0..MaxBatch}

BookLists ==
    ShortBookLists
    \cup {[i \in 1..(MAX_CONCURRENT_DOWNLOADS + ExtraUnits) |-> IdHtmlUrl]}

\* within a batch the download directory can be created
BatchEnvs == {e \in Envs : e.makedirs = "ok"}

\* the PDF files among the paths a call opened for writing: the file_path or
\* filename of the `with open(..., 'wb')` blocks (the other path is the cover)
PdfFiles(files) == {p \in files : EndsWith(p, DOT_PDF)}

\* what the units of work can end with: the identifier with the exception
\* and value of download_pdf and the PDF file it wrote, for every
\* environment of a batch
UnitOutcome(o) == [exc |-> o.exc, val |-> o.val, files |-> PdfFiles(o.files)]

OutcomeTable ==
    {<<book, UnitOutcome(download_pdf(book, e))>> : book \in BatchIdentifiers, e \in BatchEnvs}

OutcomesOf(book) == {p[2] : p \in {q \in OutcomeTable : q[1] = book}}

----------------------------------------------------------------------------
(* State *)

VARIABLES
    \* a single call, as made by the command line
    main_query,     \* query, the text given on the command line
    world,          \* what the outside world does during the call
    pc,             \* "idle", "start", then "printed", "crashed" or "blocked"
    outcome,        \* the outcome of download_pdf
    \* a batch, handle_multiple_downloads(books)
    books,      \* the argument
    mainpc,         \* where the calling thread is
    submitted,      \* how many units have been submitted
    queue,          \* the executor's work queue: the identifiers of the units not yet started
    threads,        \* the number of worker threads the executor has started
    running,        \* the bag of identifiers whose download_pdf call is executing
    stuck,          \* the part of `running` whose call is blocked in a GET without timeout
    writing,        \* the part of `running` inside `with open(path, 'wb')`: a bag of
                    \* [book, path]
    done,           \* the bag of futures that finished before as_completed looked
    fin_set,        \* the set `finished` of as_completed, a bag of futures
    waiter,         \* waiter.finished_futures, in order of completion
    fin_list,       \* the list `finished` as_completed is yielding from
    pending,        \* the size of the set `pending` of as_completed
    results,        \* the list `results`
    origin,         \* origin[k] is the identifier of the unit results[k] came from
    \* history of the completions
    clock,          \* the number the next completion gets, or 0 when completions
                    \* are not numbered
    order           \* order[k].seq is the number of the completion results[k] came
                    \* from, order[k].late whether as_completed was waiting by then

unitVars == <<main_query, world, pc, outcome>>
batchVars == <<books, mainpc, submitted, queue, threads, running, done, fin_set, waiter,
               fin_list, pending, results, origin, stuck, writing, clock, order>>
vars == <<main_query, world, pc, outcome, books, mainpc, submitted, queue, threads, running,
          done, fin_set, waiter, fin_list, pending, results, origin, stuck, writing, clock, order>>

NoOutcome == Return(None, <<>>, {})

UnitIdle ==
    /\ main_query = <<>>
    /\ world = EnvDefault
    /\ pc = "idle"
    /\ outcome = NoOutcome

BatchIdle ==
    /\ books = <<>>
    /\ mainpc = "idle"
    /\ submitted = 0
    /\ queue = <<>>
    /\ threads = 0
    /\ running = EmptyBag
    /\ done = EmptyBag
    /\ fin_set = EmptyBag
    /\ waiter = <<>>
    /\ fin_list = <<>>
    /\ pending = 0
    /\ results = <<>>
    /\ origin = <<>>
    /\ stuck = EmptyBag
    /\ writing = EmptyBag
    /\ clock = 0
    /\ order = <<>>

----------------------------------------------------------------------------
(* A single call: result = download_pdf(query); print(result) *)

InitUnit ==
    /\ main_query \in Identifiers
    /\ world \in Envs
    /\ pc = "start"
    /\ outcome = NoOutcome
    /\ BatchIdle

Main ==
    /\ pc = "start"
    /\ outcome' = download_pdf(main_query, world)
    /\ pc' = CASE outcome'.exc = NoExc -> "printed"
               [] outcome'.exc = Blocked -> "blocked"
               [] OTHER -> "crashed"
    /\ UNCHANGED <<main_query, world>>
    /\ UNCHANGED batchVars

NextUnit == Main

SpecUnit == InitUnit /\ [][NextUnit]_vars

----------------------------------------------------------------------------
(* Batch dispatcher: handle_multiple_downloads(books) *)

\* ThreadPoolExecutor(max_workers=MAX_CONCURRENT_DOWNLOADS)
\* a pool one worker wider than the configured cap
MaxWorkersOneMore == MAX_CONCURRENT_DOWNLOADS + 1

max_workers == MAX_CONCURRENT_DOWNLOADS

\* the future of a finished unit: the identifier future_to_book maps it to,
\* the exception or value its download_pdf call ended with, and the number
\* of its completion
Future(book, o) == [book |-> book, exc |-> o.exc, val |-> o.val, seq |-> clock]

\* a reversal that leaves the list as it is
ReverseNot(s) == s

Reverse(s) == [i \in DOMAIN s |-> s[Len(s) + 1 - i]]
Last(s) == s[Len(s)]
Front(s) == SubSeq(s, 1, Len(s) - 1)

\* the body of the for loop: results after the future has been handled
\* a loop body whose except branch appends nothing
CollectResultDropsRaised(res, future) ==
    IF future.exc = NoExc THEN Append(res, future.val) ELSE res

CollectResult(res, future) ==
    IF future.exc = NoExc
    THEN Append(res, future.val)
    ELSE Append(res, [status |-> "error", message |-> StrExc(future.exc), book |-> future.book])

InitBatch ==
    /\ UnitIdle
    /\ books \in BookLists
    /\ mainpc = IF books = <<>> THEN "as_completed" ELSE "submit"
    /\ submitted = 0
    /\ queue = <<>>
    /\ threads = 0
    /\ running = EmptyBag
    /\ done = EmptyBag
    /\ fin_set = EmptyBag
    /\ waiter = <<>>
    /\ fin_list = <<>>
    /\ pending = 0
    /\ results = <<>>
    /\ origin = <<>>
    /\ stuck = EmptyBag
    /\ writing = EmptyBag
    /\ clock = 0
    /\ order = <<>>

\* executor.submit(download_pdf, book): the unit is queued, and a worker
\* thread is started unless max_workers threads exist or an idle one takes it
Submit ==
    /\ mainpc = "submit"
    /\ submitted < Len(books)
    /\ submitted' = submitted + 1
    /\ queue' = Append(queue, books[submitted + 1])
    /\ \/ threads < max_workers /\ threads' = threads + 1
       \/ (threads = max_workers \/ BagCardinality(running) + Len(queue) < threads)
            /\ threads' = threads
    /\ mainpc' = IF submitted' = Len(books) THEN "as_completed" ELSE "submit"
    /\ UNCHANGED <<books, running, done, fin_set, waiter, fin_list, pending, results, origin, stuck,
                   writing, clock, order>>
    /\ UNCHANGED unitVars

\* an idle worker thread takes the oldest queued unit and calls download_pdf
WorkerStart ==
    /\ queue # <<>>
    /\ BagCardinality(running) < threads
    /\ running' = running (+) SetToBag({Head(queue)})
    /\ queue' = Tail(queue)
    /\ UNCHANGED <<books, mainpc, submitted, threads, done, fin_set, waiter, fin_list,
                   pending, results, origin, stuck, writing, clock, order>>
    /\ UNCHANGED unitVars

\* how many running calls of an identifier have their PDF file open
WritingCount(book) ==
    BagCardinality([w \in {x \in BagToSet(writing) : x.book = book} |-> writing[w]])

\* the identifiers with a running call that is neither blocked nor writing
Computing ==
    {book \in BagToSet(running) :
        CopiesIn(book, running) > CopiesIn(book, stuck) + WritingCount(book)}

\* a download_pdf call enters `with open(path, 'wb') as f`
WorkerOpens ==
    /\ \E book \in Computing : \E o \in OutcomesOf(book) : \E path \in o.files :
        writing' = writing (+) SetToBag({[book |-> book, path |-> path]})
    /\ UNCHANGED <<books, mainpc, submitted, queue, threads, running, done, fin_set, waiter,
                   fin_list, pending, results, origin, stuck, clock, order>>
    /\ UNCHANGED unitVars

\* a download_pdf call ends, closing the file if it wrote one; its future is
\* set and the waiter, if as_completed has installed it, is notified
WorkerFinish ==
    /\ \E book \in BagToSet(running) : \E o \in {x \in OutcomesOf(book) : x.exc # Blocked} :
        /\ \/ book \in Computing /\ o.files = {} /\ writing' = writing
           \/ \E path \in o.files :
                /\ BagIn([book |-> book, path |-> path], writing)
                /\ writing' = writing (-) SetToBag({[book |-> book, path |-> path]})
        /\ running' = running (-) SetToBag({book})
        /\ clock' = IF clock = 0 THEN 0 ELSE clock + 1
        /\ IF mainpc \in {"submit", "as_completed"}
           THEN done' = done (+) SetToBag({Future(book, o)}) /\ waiter' = waiter
           ELSE waiter' = Append(waiter, Future(book, o)) /\ done' = done
    /\ UNCHANGED <<books, mainpc, submitted, queue, threads, fin_set, fin_list,
                   pending, results, origin, stuck, order>>
    /\ UNCHANGED unitVars

\* a download_pdf call reaches a GET that has no timeout and whose server
\* never responds: the worker thread stays in the call
WorkerBlocks ==
    /\ \E book \in Computing :
        /\ \E o \in OutcomesOf(book) : o.exc = Blocked
        /\ stuck' = stuck (+) SetToBag({book})
    /\ UNCHANGED <<books, mainpc, submitted, queue, threads, running, done, fin_set, waiter,
                   fin_list, pending, results, origin, writing, clock, order>>
    /\ UNCHANGED unitVars

\* as_completed(future_to_book): the futures already finished go to the set
\* `finished`, the others to `pending`, and the waiter is installed
AsCompleted ==
    /\ mainpc = "as_completed"
    /\ fin_set' = done
    /\ done' = EmptyBag
    /\ pending' = submitted - BagCardinality(done)
    /\ mainpc' = IF done = EmptyBag THEN "pending" ELSE "yield_set"
    /\ UNCHANGED <<books, submitted, queue, threads, running, waiter, fin_list, results, origin,
                   stuck, writing, clock, order>>
    /\ UNCHANGED unitVars

\* a future of the set `finished` is yielded, in the order the set iterates,
\* and the loop body handles it
YieldFromSet ==
    /\ mainpc = "yield_set"
    /\ \E future \in BagToSet(fin_set) :
        /\ fin_set' = fin_set (-) SetToBag({future})
        /\ results' = CollectResult(results, future)
        /\ origin' = Append(origin, future.book)
        /\ order' = Append(order, [seq |-> future.seq, late |-> FALSE])
    /\ mainpc' = IF fin_set' = EmptyBag THEN "pending" ELSE "yield_set"
    /\ UNCHANGED <<books, submitted, queue, threads, running, done, waiter, fin_list, pending, stuck,
                   writing, clock>>
    /\ UNCHANGED unitVars

\* while pending: waiter.event.wait(); finished = waiter.finished_futures,
\* emptied and reversed
WaitForEvent ==
    /\ mainpc = "pending"
    /\ pending > 0
    /\ waiter # <<>>
    /\ fin_list' = Reverse(waiter)
    /\ waiter' = <<>>
    /\ mainpc' = "yield_list"
    /\ UNCHANGED <<books, submitted, queue, threads, running, done, fin_set, pending,
                   results, origin, stuck, writing, clock, order>>
    /\ UNCHANGED unitVars

\* _yield_finished_futures: the last future of the list is popped, removed
\* from `pending` and yielded, and the loop body handles it
YieldFromList ==
    /\ mainpc = "yield_list"
    /\ fin_list # <<>>
    /\ fin_list' = Front(fin_list)
    /\ pending' = pending - 1
    /\ results' = CollectResult(results, Last(fin_list))
    /\ origin' = Append(origin, Last(fin_list).book)
    /\ order' = Append(order, [seq |-> Last(fin_list).seq, late |-> TRUE])
    /\ mainpc' = IF fin_list' = <<>> THEN "pending" ELSE "yield_list"
    /\ UNCHANGED <<books, submitted, queue, threads, running, done, fin_set, waiter, stuck, writing,
                   clock>>
    /\ UNCHANGED unitVars

\* `pending` is empty: the for loop ends and the with block shuts the
\* executor down, waiting for its workers; then results is returned
Shutdown ==
    /\ mainpc = "pending"
    /\ pending = 0
    /\ queue = <<>> /\ running = EmptyBag
    /\ mainpc' = "returned"
    /\ UNCHANGED <<books, submitted, queue, threads, running, done, fin_set, waiter,
                   fin_list, pending, results, origin, stuck, writing, clock, order>>
    /\ UNCHANGED unitVars

NextBatch ==
    \/ Submit
    \/ WorkerStart
    \/ WorkerOpens
    \/ WorkerFinish
    \/ WorkerBlocks
    \/ AsCompleted
    \/ YieldFromSet
    \/ WaitForEvent
    \/ YieldFromList
    \/ Shutdown

SpecBatch == InitBatch /\ [][NextBatch]_vars

\* the short batches, with their completions numbered from 1
InitOrder ==
    /\ UnitIdle
    /\ books \in ShortBookLists
    /\ mainpc = IF books = <<>> THEN "as_completed" ELSE "submit"
    /\ submitted = 0
    /\ queue = <<>>
    /\ threads = 0
    /\ running = EmptyBag
    /\ done = EmptyBag
    /\ fin_set = EmptyBag
    /\ waiter = <<>>
    /\ fin_list = <<>>
    /\ pending = 0
    /\ results = <<>>
    /\ origin = <<>>
    /\ stuck = EmptyBag
    /\ writing = EmptyBag
    /\ clock = 1
    /\ order = <<>>

SpecOrder == InitOrder /\ [][NextBatch]_vars

\* the calling thread and the worker threads are scheduled fairly: a thread
\* that can take its next step takes it.  Whether a server responds is the
\* world's choice, so WorkerBlocks carries no fairness.
FairSpecBatch ==
    /\ SpecBatch
    /\ WF_vars(Submit) /\ WF_vars(WorkerStart) /\ WF_vars(WorkerFinish)
    /\ WF_vars(AsCompleted) /\ WF_vars(YieldFromSet) /\ WF_vars(WaitForEvent)
    /\ WF_vars(YieldFromList) /\ WF_vars(Shutdown)

----------------------------------------------------------------------------
(* Properties of a single call *)

tr == outcome.trace

\* the call has ended, by a return or by an exception
Ended == pc \in {"printed", "crashed"}

Called(name) == \E i \in DOMAIN tr : tr[i] = Call(name)
ReturnedAt(i, name) == tr[i].kind = "ret" /\ tr[i].name = name
NetCalls == {i \in DOMAIN tr : tr[i].kind = "net"}

Stages == <<"_try_pdfdrive_search", "_try_archive_search", "_try_google_pdf_search">>

\* C4: for a generic title the stages are tried in the order site A, archive,
\* generic search; a stage is started only after the stage before it returned
\* None, and the first stage that returns a value ends the chain with it.
C4_FallbackOrder ==
    (Ended /\ Called("_download_by_book_name")) =>
        /\ Called(Stages[1])
        /\ \A k \in 1..3 : Cardinality({i \in DOMAIN tr : tr[i] = Call(Stages[k])}) <= 1
        /\ \A k \in 2..3 : \A i \in DOMAIN tr :
              tr[i] = Call(Stages[k]) => \E j \in 1..(i - 1) : tr[j] = Ret(Stages[k - 1], None)
        /\ \A k \in 1..3 : \A i \in DOMAIN tr :
              (ReturnedAt(i, Stages[k]) /\ tr[i].val # None) =>
                  /\ i = Len(tr)
                  /\ outcome.exc = NoExc
                  /\ outcome.val = tr[i].val

C4_Witness ==
    /\ pc = "printed"
    /\ Called("_download_by_book_name")
    /\ \E i \in DOMAIN tr : \E j \in 1..(i - 1) :
          /\ tr[j] = Ret(Stages[1], None)
          /\ ReturnedAt(i, Stages[2]) /\ tr[i].val # None
    /\ ~Called(Stages[3])

NotPdfUrl == [status |-> "error", message |-> Fmt("URL doesn't point to a PDF file", <<>>)]

\* C5: an identifier routed to the direct fetch whose trimmed text does not
\* end in ".pdf", whatever the case, gets the error Result "URL doesn't point
\* to a PDF file", with no network call made and no file written.
C5_NonPdfUrlNoNetwork ==
    (Ended /\ Called("_download_direct_url") /\ ~EndsWith(Lower(Strip(main_query)), DOT_PDF)) =>
        /\ outcome.exc = NoExc
        /\ outcome.val = NotPdfUrl
        /\ NetCalls = {}
        /\ outcome.files = {}

C5_Witness ==
    /\ pc = "printed"
    /\ main_query = IdHtmlUrl
    /\ Called("_download_direct_url")
    /\ outcome.val = NotPdfUrl

\* C6: for a past-paper query the Result is info, with resources and tips,
\* whenever the catalogue lookup returned None (no link, a failed lookup or a
\* failed download of the link), it is never error, and it is success only
\* with the success Result the lookup returned.
C6_PastPaperInfo ==
    (Ended /\ Called("_try_past_paper_download")) =>
        /\ outcome.exc = NoExc
        /\ outcome.val.status \in {"info", "success"}
        /\ \E i \in DOMAIN tr : ReturnedAt(i, "_try_mzuni_opac_search")
        /\ \A i \in DOMAIN tr : ReturnedAt(i, "_try_mzuni_opac_search") =>
              /\ tr[i].val = None =>
                    /\ outcome.val.status = "info"
                    /\ {"resources", "tips"} \subseteq DOMAIN outcome.val
              /\ outcome.val.status = "success" =>
                    /\ tr[i].val # None
                    /\ tr[i].val.status = "success"
                    /\ outcome.val = tr[i].val

C6_Witness ==
    /\ pc = "printed"
    /\ Called("_try_past_paper_download")
    /\ world.opac = "link" /\ world.opac_dl = "get_raises"
    /\ \E i \in DOMAIN tr : tr[i] = Net("opac_pdf")
    /\ outcome.val.status = "info"

\* C7: a call of download_pdf always returns a Result whose status is
\* success, error or info; no exception leaves download_pdf.
C7_NeverRaises ==
    Ended =>
        /\ outcome.exc = NoExc
        /\ outcome.val.status \in {"success", "error", "info"}

\* the title the chain searches for: the trimmed identifier without a
\* trailing ".pdf", trimmed again
CleanName(q) == Strip(SubPdfSuffix(Strip(q)))

AllStagesReturnedNone == \A k \in 1..3 : \E i \in DOMAIN tr : tr[i] = Ret(Stages[k], None)

NotFound(clean_name) ==
    [status |-> "error",
     message |-> Fmt("Could not find PDF for '{}'", clean_name),
     alternatives |->
        << Fmt("https://www.pdfdrive.com/search?q={}", Replace(clean_name, " ", "+")),
           Fmt("https://archive.org/search.php?query={}", Replace(clean_name, " ", "+")) >>]

\* C8: for a generic title, when all three stages returned None the Result is
\* the terminal error with the site-A and archive search URLs of the cleaned
\* title, and a Result with alternatives is given only after all three stages
\* returned None.
C8_TerminalError ==
    (Ended /\ Called("_download_by_book_name")) =>
        /\ AllStagesReturnedNone =>
              (outcome.exc = NoExc /\ outcome.val = NotFound(CleanName(main_query)))
        /\ (outcome.exc = NoExc /\ "alternatives" \in DOMAIN outcome.val) => AllStagesReturnedNone

C8_Witness ==
    /\ pc = "printed"
    /\ main_query = IdTitlePdf
    /\ AllStagesReturnedNone
    /\ outcome.val = NotFound(IdTitle)

\* the text starts with the scheme marker http:// or https://
IsUrl(id) ==
    \/ StartsWith(Lower(id), HTTP \o <<":", "/", "/">>)
    \/ StartsWith(Lower(id), HTTP \o <<"s", ":", "/", "/">>)

HasPaperKeyword(id) == Contains(Lower(id), PAST_PAPER) \/ Contains(Lower(id), EXAM_PAPER)

Strategies == {"_download_direct_url", "_try_past_paper_download", "_download_by_book_name"}

\* C9: the trimmed input goes to exactly one strategy: the direct fetch if it
\* starts with an HTTP(S) scheme marker, else the past-paper resolution if it
\* contains a past-paper keyword, else the title chain; so a URL with a
\* keyword is fetched directly and a free text never is.
C9_Classification ==
    (Ended /\ world.makedirs = "ok") =>
        LET id == Strip(main_query)
        IN  /\ Cardinality({n \in Strategies : Called(n)}) = 1
            /\ Called("_download_direct_url") <=> IsUrl(id)
            /\ Called("_try_past_paper_download") <=> (~IsUrl(id) /\ HasPaperKeyword(id))
            /\ Called("_download_by_book_name") <=> (~IsUrl(id) /\ ~HasPaperKeyword(id))

\* stage k ended without a downloaded PDF
StageFailed(k) ==
    ~\E i \in DOMAIN tr :
        ReturnedAt(i, Stages[k]) /\ tr[i].val # None /\ tr[i].val.status = "success"

\* C10: when the site-A stage or the archive stage fails in any way, a failed
\* fetch of the URL it resolved included, the stage returns None and the
\* stage after it is attempted.
C10_StageFailureNeverBlocks ==
    (Ended /\ Called("_download_by_book_name")) =>
        \A k \in 1..2 : \A i \in DOMAIN tr :
            (tr[i] = Call(Stages[k]) /\ StageFailed(k)) =>
                \E j \in (i + 1)..Len(tr) :
                    /\ tr[j] = Ret(Stages[k], None)
                    /\ \E m \in (j + 1)..Len(tr) : tr[m] = Call(Stages[k + 1])

----------------------------------------------------------------------------
(* Properties of a batch *)

\* C1: the list handle_multiple_downloads returns has exactly one Result per
\* submitted identifier, duplicates included, whether the units returned a
\* Result or raised; no state holds more results than identifiers.
C1_ExactlyNResults ==
    /\ Len(results) <= Len(books)
    /\ mainpc = "returned" => Len(results) = Len(books)

C1_Witness ==
    /\ mainpc = "returned"
    /\ Len(books) = 2 /\ books[1] = books[2]
    /\ Len(results) = 2
    /\ \E j, k \in DOMAIN results :
          /\ "book" \in DOMAIN results[j]
          /\ results[k].status = "success"

\* C2: every Result of the returned list carries the identifier of the unit
\* it came from.
C2_TaggedWithIdentifier ==
    \A k \in DOMAIN results :
        /\ "book" \in DOMAIN results[k]
        /\ results[k].book = origin[k]

\* C3: at most MAX_CONCURRENT_DOWNLOADS calls of download_pdf execute at the
\* same time, and no more worker threads than that exist.
C3_ConcurrencyCap ==
    /\ BagCardinality(running) <= MAX_CONCURRENT_DOWNLOADS
    /\ threads <= MAX_CONCURRENT_DOWNLOADS

C3_Witness ==
    /\ Len(books) > MAX_CONCURRENT_DOWNLOADS
    /\ BagCardinality(running) = MAX_CONCURRENT_DOWNLOADS
    /\ queue # <<>>

----------------------------------------------------------------------------
(* Termination of a batch *)

\* C11: with fair scheduling every unit of work completes and
\* handle_multiple_downloads returns, for every batch and whatever the
\* servers do, because every network call has a timeout
C11_BatchReturns == <>(mainpc = "returned")

----------------------------------------------------------------------------
(* Output files of concurrent units *)

\* C12: no two units of a batch that run at the same time have the same
\* output file path open for writing
C12_ExclusiveOutputFile ==
    \A w \in BagToSet(writing) :
        /\ CopiesIn(w, writing) = 1
        /\ \A x \in BagToSet(writing) : x.path = w.path => x = w

----------------------------------------------------------------------------
(* Order of the returned list *)

\* C13 as stated: the returned list is in completion order; of two units
\* the one that completed first has its Result first
C13_CompletionOrder ==
    mainpc = "returned" =>
        \A j, k \in DOMAIN order : order[j].seq < order[k].seq => j < k

\* C13, amended: of two units the one that completed first has its Result
\* first, provided the other had not completed when as_completed began
C13_LateCompletionOrder ==
    mainpc = "returned" =>
        \A j, k \in DOMAIN order :
            (order[j].seq < order[k].seq /\ order[k].late) => j < k

\* a batch has returned in which two units completed one after the other
\* while as_completed was waiting
C13_Witness ==
    /\ mainpc = "returned"
    /\ \E j, k \in DOMAIN order :
        order[j].seq < order[k].seq /\ order[j].late /\ order[k].late

====
